---- MODULE Spec2Model ----
(***************************************************************************)
(* A model of AIContextScraper: the one-hop crawler of utils/fetcher.py,   *)
(* the sentence chunker of utils/parser.py and the page exporter of        *)
(* utils/exporter.py.                                                      *)
(*                                                                         *)
(* The program runs on one asyncio event loop, so a task runs without      *)
(* interruption from one suspension point (an await that really suspends)  *)
(* to the next.  Every action below is one such run of one task.           *)
(***************************************************************************)
EXTENDS Integers, Sequences, FiniteSets, TLC

VARIABLES
    \* ---- AsyncFetcher (utils/fetcher.py) ----
    start_url,      \* the argument of crawl
    seed_hrefs,     \* the href attributes of the anchors in the start page's markup
    visited_urls,   \* self.visited_urls
    failed_urls,    \* self.failed_urls
    semaphore,      \* the value of self.semaphore (free slots)
    tasks,          \* the fetch_page coroutines: task id -> frame
    open_pages,     \* browser pages opened by new_page and not closed
    crawl_pc,       \* where crawl is: "seed", "gather", "returned"
    crawl_result,   \* what crawl returned
    attempts,       \* history: url -> number of retrieval attempts started
    passed,         \* history: url -> number of times the visited check was passed
    sleeps,         \* history: url -> the backoff delays slept, in order
    succeeded,      \* history: urls with a retrieval that returned a page
    waited,         \* history: the URLs whose task was suspended at the gate
    \* ---- ContentParser.chunk_content / get_chunks (utils/parser.py) ----
    tokenizer,      \* self.tokenizer: which tokenizer counts the tokens
    content,        \* the argument of get_chunks
    chunk_pc,       \* "idle", "split", "loop", "flush", "count", "done"
    sentences,      \* the sentences still to be looped over
    chunks,         \* chunks
    current_chunk,  \* current_chunk
    current_tokens, \* current_tokens
    groups,         \* history: the sentences each chunk was joined from
    chunk_records,  \* what get_chunks returned
    \* ---- ContentExporter.export_page (utils/exporter.py) ----
    n_chunks,       \* len(chunks), the chunks export_page is called with
    writer,         \* the three gathered coroutines: name -> [pc, idx]
    files,          \* the files under the output directory: name -> state
    export_pc,      \* where export_page is: "idle", "gather", "returned", "raised"
    loop,           \* the event loop: "running" or "closed"
    pdf_export,     \* main.py: the PDF choice made at the entry point
    pdf_attempted,  \* history: export_page called save_pdf
    dirs,           \* the subdirectories of the output directory that exist
    open_errors,    \* history: why a writer's aiofiles.open raised
    \* ---- ContentParser.parse_page (utils/parser.py) ----
    page_html,      \* page_data['html']: the markup given to parse_page
    parse_pc,       \* where parse_page is: "idle", "call", "returned", "raised"
    parsed,         \* what parse_page returned
    \* ---- scrape_site (main.py) ----
    scrape_pc,      \* where scrape_site is: "idle", "setup", "enter", "crawl", "exit",
                    \* "pages", "returned", "raised"
    crawl_results,  \* what crawl returned: [pages, failed_urls]
    page_idx,       \* the page of crawl_results['pages'] the loop is at
    total_tokens,
    total_errors,
    txt_files,      \* the files of the txt directory: name -> [exists, text]
    metadata,       \* the run metadata built on lines 94-103
    metadata_file,  \* metadata.json: "absent", "empty" or "written"
    page_log,       \* history: one record for each page the loop has been through
    abort_cause     \* history: what made scrape_site raise

fetchVars == <<start_url, seed_hrefs, visited_urls, failed_urls, semaphore, tasks,
               open_pages, crawl_pc, crawl_result, attempts, passed, sleeps, succeeded,
               waited>>

chunkVars == <<tokenizer, content, chunk_pc, sentences, chunks, current_chunk,
               current_tokens, groups, chunk_records>>

exportVars == <<n_chunks, writer, files, export_pc, loop>>

pdfVars == <<pdf_export, pdf_attempted>>

dirVars == <<dirs, open_errors>>

parseVars == <<page_html, parse_pc, parsed>>

scrapeVars == <<scrape_pc, crawl_results, page_idx, total_tokens, total_errors,
                txt_files, metadata, metadata_file, page_log, abort_cause>>

vars == <<fetchVars, chunkVars, exportVars, pdfVars, dirVars, parseVars, scrapeVars>>

\* What an action of the crawler leaves alone.
outsideFetch == <<chunkVars, exportVars, pdfVars, dirVars, parseVars, scrapeVars>>

\* What an action of the chunker leaves alone.
outsideChunk == <<fetchVars, exportVars, pdfVars, dirVars, parseVars, scrapeVars>>

\* What an action of the exporter leaves alone.
outsideExport == <<fetchVars, chunkVars, parseVars, scrapeVars>>

\* What parse_page leaves alone.
outsideParse == <<fetchVars, chunkVars, exportVars, pdfVars, dirVars, scrapeVars>>

\* What scrape_site leaves alone.
outsideScrape == <<fetchVars, chunkVars, exportVars, pdfVars, dirVars, parseVars>>

(***************************************************************************)
(* Configuration (config.py).                                              *)
(***************************************************************************)
\* config.py:9 sets MAX_CONCURRENCY = 10.  The model runs a smaller gate so
\* that a handful of link tasks is enough to fill it and make a task wait.
MAX_CONCURRENCY == 2

MAX_RETRIES == 3

BLACKLIST_PATTERNS == {"#top", ".jpg", ".png", ".gif", ".css", ".js"}

(***************************************************************************)
(* URLs.  A URL is a sequence of pieces of text: a scheme piece, a host    *)
(* piece and path pieces; the empty string is the empty sequence.  A       *)
(* substring test against a blacklist pattern is membership of the pattern *)
(* among the pieces.                                                       *)
(***************************************************************************)
Scheme == "http://"

SeedUrl  == <<Scheme, "a.com", "/">>
P1       == <<Scheme, "a.com", "/p1">>
P2       == <<Scheme, "a.com", "/p2">>
P3       == <<Scheme, "a.com", "/p3">>
Deep     == <<Scheme, "a.com", "/deep">>
ExtUrl   == <<Scheme, "b.com", "/x">>
ImgUrl   == <<Scheme, "a.com", "/logo", ".png">>
EmptyUrl == << >>

Urls == {SeedUrl, P1, P2, P3, Deep, ExtUrl, ImgUrl, EmptyUrl}

\* The hrefs an anchor of the start page may carry: root-relative, absolute,
\* off-site, blacklisted, and the empty href (which resolves to the page itself).
SeedHrefs == {<<"/p1">>, P2, <<"/p3">>, ExtUrl, <<"/logo", ".png">>, << >>}

\* The URLs crawl may be called with, on a fetcher built for SeedUrl.
StartUrls == {SeedUrl, ExtUrl, ImgUrl, EmptyUrl}

\* urlparse(url).netloc
Netloc(url) == IF Len(url) >= 2 /\ url[1] = Scheme THEN url[2] ELSE ""

\* pattern in url
Contains(url, pattern) == \E i \in 1..Len(url) : url[i] = pattern

\* urljoin(current_url, href)
Urljoin(current_url, href) ==
    IF href = << >> THEN current_url
    ELSE IF href[1] = Scheme THEN href
    ELSE IF Len(current_url) >= 2 /\ current_url[1] = Scheme
         THEN <<current_url[1], current_url[2]>> \o href
         ELSE href

\* self.base_url, self.domain
base_url == SeedUrl
domain == Netloc(base_url)

\* The _is_valid_url that forgets the host comparison.
IsValidUrlAnyHost(url) ==
    ~ (url = << >> \/ \E p \in BLACKLIST_PATTERNS : Contains(url, p))

_is_valid_url(url) ==
    IF url = << >> \/ \E p \in BLACKLIST_PATTERNS : Contains(url, p)
    THEN FALSE
    ELSE Netloc(url) = domain

(***************************************************************************)
(* Markup.  What the model keeps of a page's markup is whether it is blank *)
(* and the hrefs of its anchors.                                           *)
(***************************************************************************)
BlankHtml == [blank |-> TRUE, hrefs |-> {}]

\* The markup the site serves for url.
Markup(url) ==
    IF url = start_url THEN [blank |-> FALSE, hrefs |-> seed_hrefs]
    ELSE IF url = P1 THEN [blank |-> FALSE, hrefs |-> {<<"/deep">>, << >>}]
    ELSE [blank |-> FALSE, hrefs |-> {}]

extract_links(html, current_url) ==
    {u \in {Urljoin(current_url, h) : h \in html.hrefs} : _is_valid_url(u)}

(***************************************************************************)
(* fetch_page.  A frame is one call of fetch_page together with the calls  *)
(* it makes to itself: url, retry_count, the place it is suspended at, the *)
(* markup it read and what it returned.                                    *)
(*   "call"     created, not yet run                                       *)
(*   "acquire"  suspended in semaphore.acquire                             *)
(*   "new_page" holds a slot, awaiting browser.new_page()                  *)
(*   "load"     holds a slot and an open page, awaiting goto .. title      *)
(*   "close"    holds a slot, awaiting page.close()                        *)
(*   "backoff"  awaiting asyncio.sleep(2 ** retry_count)                   *)
(*   "done"     returned                                                   *)
(***************************************************************************)
SeedTask == <<"seed", start_url>>
LinkTask(url) == <<"link", url>>

NewFrame(url) ==
    [url |-> url, retry_count |-> 0, pc |-> "call", html |-> BlankHtml,
     result |-> "pending"]

InGate == {"new_page", "load", "close"}

InFlight == {t \in DOMAIN tasks : tasks[t].pc \in InGate}

\* The visited check that lets every call through.
NeverVisited(url) == FALSE

\* url in self.visited_urls
AlreadyVisited(url) == url \in visited_urls

\* The gate that hands out a slot whether or not one is free.
SlotAlwaysFree == TRUE

\* asyncio.Semaphore: acquire goes through only while the value is positive
SlotFree == semaphore > 0

\* Lines 37-43 for frame t called with retry_count rc: the validity and visited
\* checks, the insertion into visited_urls and, when a slot is free, its
\* acquisition; nothing suspends in between.
EnterFetchPage(t, rc) ==
    LET url == tasks[t].url IN
    IF ~ _is_valid_url(url) \/ AlreadyVisited(url)
    THEN /\ tasks' = [tasks EXCEPT ![t].pc = "done", ![t].result = "none",
                                   ![t].retry_count = rc]
         /\ UNCHANGED <<visited_urls, semaphore, attempts, passed, waited>>
    ELSE /\ visited_urls' = visited_urls \cup {url}
         /\ passed' = [passed EXCEPT ![url] = @ + 1]
         /\ IF SlotFree
            THEN /\ semaphore' = semaphore - 1
                 /\ attempts' = [attempts EXCEPT ![url] = @ + 1]
                 /\ tasks' = [tasks EXCEPT ![t].pc = "new_page",
                                           ![t].retry_count = rc]
                 /\ UNCHANGED waited
            ELSE /\ tasks' = [tasks EXCEPT ![t].pc = "acquire",
                                           ![t].retry_count = rc]
                 /\ waited' = waited \cup {url}
                 /\ UNCHANGED <<semaphore, attempts>>

\* Lines 90-98: the except clause, up to its suspension in asyncio.sleep or
\* its return.
HandleException(t) ==
    LET f == tasks[t] IN
    IF f.retry_count < MAX_RETRIES
    THEN /\ sleeps' = [sleeps EXCEPT ![f.url] = Append(@, 2 ^ f.retry_count)]
         /\ tasks' = [tasks EXCEPT ![t].pc = "backoff"]
         /\ UNCHANGED failed_urls
    ELSE /\ failed_urls' = failed_urls \cup {f.url}
         /\ tasks' = [tasks EXCEPT ![t].pc = "done", ![t].result = "none"]
         /\ UNCHANGED sleeps

\* A task created by crawl runs for the first time.
FetchPageCall(t) ==
    /\ UNCHANGED outsideFetch
    /\ tasks[t].pc = "call"
    /\ EnterFetchPage(t, 0)
    /\ UNCHANGED <<start_url, seed_hrefs, failed_urls, open_pages, crawl_pc,
                   crawl_result, sleeps, succeeded>>

\* A task suspended in semaphore.acquire gets a slot.
SemaphoreAcquire(t) ==
    /\ UNCHANGED outsideFetch
    /\ tasks[t].pc = "acquire"
    /\ SlotFree
    /\ semaphore' = semaphore - 1
    /\ attempts' = [attempts EXCEPT ![tasks[t].url] = @ + 1]
    /\ tasks' = [tasks EXCEPT ![t].pc = "new_page"]
    /\ UNCHANGED <<waited, start_url, seed_hrefs, visited_urls, failed_urls, open_pages,
                   crawl_pc, crawl_result, passed, sleeps, succeeded>>

\* Line 44: browser.new_page() returns a page.
NewPageOk(t) ==
    /\ UNCHANGED outsideFetch
    /\ tasks[t].pc = "new_page"
    /\ open_pages' = open_pages + 1
    /\ tasks' = [tasks EXCEPT ![t].pc = "load"]
    /\ UNCHANGED <<waited, start_url, seed_hrefs, visited_urls, failed_urls, semaphore,
                   crawl_pc, crawl_result, attempts, passed, sleeps, succeeded>>

\* Line 44: browser.new_page() raises; the slot is released on the way out of
\* the async with, and the except clause runs.
NewPageFails(t) ==
    /\ UNCHANGED outsideFetch
    /\ tasks[t].pc = "new_page"
    /\ semaphore' = semaphore + 1
    /\ HandleException(t)
    /\ UNCHANGED <<waited, start_url, seed_hrefs, visited_urls, open_pages, crawl_pc,
                   crawl_result, attempts, passed, succeeded>>

\* Lines 45-76: headers, goto, the waits, content and title all return; the
\* markup read is the page's or is blank.
PageLoadOk(t) ==
    /\ UNCHANGED outsideFetch
    /\ tasks[t].pc = "load"
    /\ \E html \in {Markup(tasks[t].url), BlankHtml} :
          tasks' = [tasks EXCEPT ![t].pc = "close", ![t].html = html]
    /\ UNCHANGED <<waited, start_url, seed_hrefs, visited_urls, failed_urls, semaphore,
                   open_pages, crawl_pc, crawl_result, attempts, passed, sleeps,
                   succeeded>>

\* The failure path that runs the except clause inside the async with, and so
\* keeps the slot through the backoff.
PageLoadFailsHoldingSlot(t) ==
    /\ UNCHANGED outsideFetch
    /\ tasks[t].pc = "load"
    /\ HandleException(t)
    /\ UNCHANGED <<waited, start_url, seed_hrefs, visited_urls, semaphore, open_pages,
                   crawl_pc, crawl_result, attempts, passed, succeeded>>

\* Lines 45-76: one of the awaited page operations raises (outside the inner
\* try); page.close() on line 78 is not reached.
PageLoadFails(t) ==
    /\ UNCHANGED outsideFetch
    /\ tasks[t].pc = "load"
    /\ semaphore' = semaphore + 1
    /\ HandleException(t)
    /\ UNCHANGED <<waited, start_url, seed_hrefs, visited_urls, open_pages, crawl_pc,
                   crawl_result, attempts, passed, succeeded>>

\* Lines 78-88: page.close() returns; blank markup raises ValueError, other
\* markup is returned as the fetched page.
PageCloseOk(t) ==
    /\ UNCHANGED outsideFetch
    /\ tasks[t].pc = "close"
    /\ open_pages' = open_pages - 1
    /\ semaphore' = semaphore + 1
    /\ IF tasks[t].html.blank
       THEN /\ HandleException(t)
            /\ UNCHANGED succeeded
       ELSE /\ tasks' = [tasks EXCEPT ![t].pc = "done", ![t].result = "page"]
            /\ succeeded' = succeeded \cup {tasks[t].url}
            /\ UNCHANGED <<failed_urls, sleeps>>
    /\ UNCHANGED <<waited, start_url, seed_hrefs, visited_urls, crawl_pc, crawl_result,
                   attempts, passed>>

\* Line 78: page.close() raises.
PageCloseFails(t) ==
    /\ UNCHANGED outsideFetch
    /\ tasks[t].pc = "close"
    /\ semaphore' = semaphore + 1
    /\ HandleException(t)
    /\ UNCHANGED <<waited, start_url, seed_hrefs, visited_urls, open_pages, crawl_pc,
                   crawl_result, attempts, passed, succeeded>>

\* Lines 93-94: the sleep ends and fetch_page calls itself with
\* retry_count + 1; the frame returns what that call returns.
BackoffDone(t) ==
    /\ UNCHANGED outsideFetch
    /\ tasks[t].pc = "backoff"
    /\ EnterFetchPage(t, tasks[t].retry_count + 1)
    /\ UNCHANGED <<start_url, seed_hrefs, failed_urls, open_pages, crawl_pc,
                   crawl_result, sleeps, succeeded>>

(***************************************************************************)
(* crawl.                                                                  *)
(***************************************************************************)
\* The orders a set may be listed in.
Perms(S) ==
    {s \in [1..Cardinality(S) -> S] : \A x \in S : \E i \in 1..Cardinality(S) : s[i] = x}

\* The fetched page a finished frame returned.
PageOf(t) == [url |-> tasks[t].url, html |-> tasks[t].html]

\* The crawl that also follows the links found on the linked pages.
CrawlLinksTwoHops ==
    LET first == extract_links(tasks[SeedTask].html, start_url)
    IN  first \cup UNION {extract_links(Markup(l), l) : l \in first}

\* Line 129: links = self.extract_links(result['html'], start_url)
CrawlLinks == extract_links(tasks[SeedTask].html, start_url)

\* Lines 124-126: the start page's fetch_page returned nothing.
CrawlSeedFailed ==
    /\ UNCHANGED outsideFetch
    /\ crawl_pc = "seed"
    /\ tasks[SeedTask].pc = "done"
    /\ tasks[SeedTask].result = "none"
    /\ \E f \in Perms(failed_urls) :
          crawl_result' = [pages |-> << >>, failed_urls |-> f]
    /\ crawl_pc' = "returned"
    /\ UNCHANGED <<waited, start_url, seed_hrefs, visited_urls, failed_urls, semaphore,
                   tasks, open_pages, attempts, passed, sleeps, succeeded>>

\* Lines 128-133: the start page was fetched; one fetch_page task per
\* extracted link is created and gathered.
CrawlSpawn ==
    /\ UNCHANGED outsideFetch
    /\ crawl_pc = "seed"
    /\ tasks[SeedTask].pc = "done"
    /\ tasks[SeedTask].result = "page"
    /\ tasks' = [t \in DOMAIN tasks \cup {LinkTask(l) : l \in CrawlLinks} |->
                    IF t \in DOMAIN tasks THEN tasks[t] ELSE NewFrame(t[2])]
    /\ crawl_pc' = "gather"
    /\ UNCHANGED <<waited, start_url, seed_hrefs, visited_urls, failed_urls, semaphore,
                   open_pages, crawl_result, attempts, passed, sleeps, succeeded>>

\* Lines 133-141: every gathered task returned; the pages that were fetched
\* follow the start page in the order the links were listed.
CrawlGather ==
    /\ UNCHANGED outsideFetch
    /\ crawl_pc = "gather"
    /\ \A t \in DOMAIN tasks : tasks[t].pc = "done"
    /\ \E order \in Perms(DOMAIN tasks \ {SeedTask}), f \in Perms(failed_urls) :
          LET results == [i \in DOMAIN order |-> order[i]]
              fetched == SelectSeq(results, LAMBDA t : tasks[t].result = "page")
          IN  crawl_result' =
                  [pages |-> <<PageOf(SeedTask)>> \o
                                 [i \in DOMAIN fetched |-> PageOf(fetched[i])],
                   failed_urls |-> f]
    /\ crawl_pc' = "returned"
    /\ UNCHANGED <<waited, start_url, seed_hrefs, visited_urls, failed_urls, semaphore,
                   tasks, open_pages, attempts, passed, sleeps, succeeded>>

(***************************************************************************)
(* Text.  A text is a sequence of characters over a small alphabet with a  *)
(* letter, a digit, a sentence-ending mark and a whitespace character.     *)
(***************************************************************************)
Letters == {"a"}
Digits == {"1"}
Marks == {"."}
Spaces == {" "}
Alphabet == Letters \cup Digits \cup Marks \cup Spaces

\* The longest content the chunker is run on.
MaxLen == 6

\* config.py:14 sets CHUNK_SIZE = 500.  The model runs a smaller budget so that
\* short contents overflow it.
CHUNK_SIZE == 3

Texts == UNION {[1..n -> Alphabet] : n \in 0..MaxLen}

\* The last index of the longest run of characters of S that starts at i
\* (i - 1 when text[i] is not in S).
RunEnd(text, i, S) ==
    CHOOSE j \in (i - 1)..Len(text) :
        /\ \A k \in i..j : text[k] \in S
        /\ j = Len(text) \/ text[j + 1] \notin S

\* sep.join(list)
RECURSIVE Join(_, _)
Join(list, sep) ==
    IF list = << >> THEN << >>
    ELSE IF Len(list) = 1 THEN list[1]
    ELSE list[1] \o sep \o Join(Tail(list), sep)

\* re.split(r'(?<=[.!?])\s+', text): the text is cut at every longest run of
\* whitespace that directly follows a sentence-ending mark; the run is dropped.
\* i is the next character to read, cur the sentence read so far.
RECURSIVE SplitFrom(_, _, _)
SplitFrom(text, i, cur) ==
    IF i > Len(text) THEN <<cur>>
    ELSE IF text[i] \in Spaces /\ i > 1 /\ text[i - 1] \in Marks
         THEN <<cur>> \o SplitFrom(text, RunEnd(text, i, Spaces) + 1, << >>)
         ELSE SplitFrom(text, i + 1, Append(cur, text[i]))

SplitSentences(text) == SplitFrom(text, 1, << >>)

(***************************************************************************)
(* Tokenizers.  count_tokens is len(self.tokenizer.encode(text)); the      *)
(* encoding itself belongs to the tokenizer library.  Three tokenizers     *)
(* stand for it: one token per whitespace-separated word, one token per    *)
(* character, and one token per piece of the pattern by which cl100k_base  *)
(* cuts a text before encoding it.                                         *)
(***************************************************************************)
Tokenizers == {"words", "chars", "pieces"}

WordCount(text) ==
    Cardinality({i \in 1..Len(text) :
                    text[i] \notin Spaces /\ (i = 1 \/ text[i - 1] \in Spaces)})

Min(a, b) == IF a < b THEN a ELSE b

\* The last index of the piece that starts at i, by the alternatives of the
\* cl100k_base pattern in their order:
\*   [^\r\n\p{L}\p{N}]?\p{L}+   letters, with at most one other character before
\*   \p{N}{1,3}                  one to three digits
\*    ?[^\s\p{L}\p{N}]+          marks, with at most one space before
\*   \s+(?!\S)                   whitespace up to, not including, the last
\*                               whitespace character before other text
\*   \s+                         whitespace
PieceEnd(text, i) ==
    LET n == Len(text)
        c == text[i]
        more == i < n
    IN  IF c \in Letters THEN RunEnd(text, i, Letters)
        ELSE IF c \notin Digits /\ more /\ text[i + 1] \in Letters
             THEN RunEnd(text, i + 1, Letters)
        ELSE IF c \in Digits THEN Min(RunEnd(text, i, Digits), i + 2)
        ELSE IF c \in Marks THEN RunEnd(text, i, Marks)
        ELSE IF more /\ text[i + 1] \in Marks THEN RunEnd(text, i + 1, Marks)
        ELSE LET j == RunEnd(text, i, Spaces)
             IN  IF j = n \/ j = i THEN j ELSE j - 1

RECURSIVE PieceCountFrom(_, _)
PieceCountFrom(text, i) ==
    IF i > Len(text) THEN 0 ELSE 1 + PieceCountFrom(text, PieceEnd(text, i) + 1)

\* len(tok.encode(text))
Encode(tok, text) ==
    CASE tok = "words" -> WordCount(text)
      [] tok = "chars" -> Len(text)
      [] tok = "pieces" -> PieceCountFrom(text, 1)

count_tokens(text) == Encode(tokenizer, text)

(***************************************************************************)
(* chunk_content and get_chunks.                                           *)
(***************************************************************************)
Space == <<" ">>

\* The join that puts nothing between the sentences.
JoinSentencesBare(list) == Join(list, << >>)

\* ' '.join(current_chunk)
JoinSentences(list) == Join(list, Space)

\* Line 37: the content is split into sentences.
ChunkSplit ==
    /\ UNCHANGED outsideChunk
    /\ chunk_pc = "split"
    /\ sentences' = SplitSentences(content)
    /\ chunk_pc' = "loop"
    /\ UNCHANGED <<tokenizer, content, chunks, current_chunk, current_tokens,
                   groups, chunk_records>>

\* Lines 39-49: one turn of the loop.
ChunkSentence ==
    /\ UNCHANGED outsideChunk
    /\ chunk_pc = "loop"
    /\ sentences # << >>
    /\ LET sentence == Head(sentences)
           sentence_tokens == count_tokens(sentence)
       IN  IF current_tokens + sentence_tokens > CHUNK_SIZE
           THEN /\ IF current_chunk # << >>
                   THEN /\ chunks' = Append(chunks, JoinSentences(current_chunk))
                        /\ groups' = Append(groups, current_chunk)
                   ELSE UNCHANGED <<chunks, groups>>
                /\ current_chunk' = <<sentence>>
                /\ current_tokens' = sentence_tokens
           ELSE /\ current_chunk' = Append(current_chunk, sentence)
                /\ current_tokens' = current_tokens + sentence_tokens
                /\ UNCHANGED <<chunks, groups>>
    /\ sentences' = Tail(sentences)
    /\ UNCHANGED <<tokenizer, content, chunk_pc, chunk_records>>

\* Lines 51-54: the loop is over; the open chunk is flushed and chunks returned.
ChunkFlush ==
    /\ UNCHANGED outsideChunk
    /\ chunk_pc = "loop"
    /\ sentences = << >>
    /\ IF current_chunk # << >>
       THEN /\ chunks' = Append(chunks, JoinSentences(current_chunk))
            /\ groups' = Append(groups, current_chunk)
       ELSE UNCHANGED <<chunks, groups>>
    /\ chunk_pc' = "count"
    /\ UNCHANGED <<tokenizer, content, sentences, current_chunk, current_tokens,
                   chunk_records>>

\* get_chunks, lines 126-129: each chunk with the token count of its text.
GetChunks ==
    /\ UNCHANGED outsideChunk
    /\ chunk_pc = "count"
    /\ chunk_records' = [i \in DOMAIN chunks |->
                            [content |-> chunks[i], tokens |-> count_tokens(chunks[i])]]
    /\ chunk_pc' = "done"
    /\ UNCHANGED <<tokenizer, content, sentences, chunks, current_chunk,
                   current_tokens, groups>>

(***************************************************************************)
(* parse_page.  Markup is a sequence of elements, each a tag around one    *)
(* text node.  The characters of a text node are a letter, a whitespace    *)
(* character or a special character (one that is neither a word character, *)
(* nor whitespace, nor one of . , ! ? -).                                  *)
(***************************************************************************)
Newline == <<"\n">>

Specials == {"@"}
Whitespace == Spaces \cup {"\n"}

\* Line 61: the elements extract_content removes.
Dropped == {"script"}

\* Line 66: the elements extract_content reads; the headings among them.
Headings == {"h1"}
Extracted == {"p"} \cup Headings

Tags == Dropped \cup Extracted \cup {"div"}

\* The longest text node and the largest number of elements of a page.
MaxText == 2
MaxElements == 2

ElementTexts == UNION {[1..n -> Letters \cup Specials \cup Spaces] : n \in 0..MaxText}
Elements == [name : Tags, text : ElementTexts]
Htmls == UNION {[1..n -> Elements] : n \in 0..MaxElements}

\* str.strip()
Strip(text) ==
    LET keep == {i \in 1..Len(text) : text[i] \notin Whitespace}
    IN  IF keep = {} THEN << >>
        ELSE SubSeq(text, CHOOSE i \in keep : \A j \in keep : i <= j,
                          CHOOSE i \in keep : \A j \in keep : i >= j)

\* Line 18, re.sub(r'\s+', ' ', text): every longest run of whitespace becomes
\* one space.
RECURSIVE CollapseFrom(_, _)
CollapseFrom(text, i) ==
    IF i > Len(text) THEN << >>
    ELSE IF text[i] \in Whitespace
         THEN Space \o CollapseFrom(text, RunEnd(text, i, Whitespace) + 1)
         ELSE <<text[i]>> \o CollapseFrom(text, i + 1)

\* Line 22, the characters re.sub(r'[^\w\s.,!?-]', '', text) keeps.
Kept(c) == c \in Letters \cup Digits \cup Whitespace \cup {".", ",", "!", "?", "-"}

\* Lines 15-24.
clean_text(text) == SelectSeq(Strip(CollapseFrom(text, 1)), Kept)

\* Lines 65-73: the list of texts extract_content collects.
RECURSIVE ContentList(_)
ContentList(html) ==
    IF html = << >> THEN << >>
    ELSE LET element == Head(html)
             text == Strip(element.text)
             rest == ContentList(Tail(html))
         IN  IF element.name \notin Extracted \/ text = << >> THEN rest
             ELSE IF element.name \in Headings
                  THEN <<Newline \o text \o Newline>> \o rest
                  ELSE <<text>> \o rest

\* Lines 56-75.
extract_content(html) == Join(ContentList(html), Newline)

\* What parse_page gives when it raises.
ParseError == [ok |-> FALSE, content |-> << >>, tokens |-> 0]

\* Lines 77-120, for a page_data with its three keys and a string as html.
\* Markup without elements stands for the empty string (lines 100-101); the
\* tags of an element are not whitespace.
parse_page(html) ==
    IF html = << >> THEN ParseError
    ELSE LET raw_content == extract_content(html)
         IN  IF Strip(raw_content) = << >> THEN ParseError
             ELSE LET cleaned_content == clean_text(raw_content)
                  IN  [ok |-> TRUE, content |-> cleaned_content,
                       tokens |-> count_tokens(cleaned_content)]

\* Line 117: parse_page returns the metadata.
ParsePageReturns ==
    /\ UNCHANGED outsideParse
    /\ parse_pc = "call"
    /\ parse_page(page_html).ok
    /\ parsed' = parse_page(page_html)
    /\ parse_pc' = "returned"
    /\ UNCHANGED page_html

\* Lines 118-120: parse_page raises ValueError.
ParsePageRaises ==
    /\ UNCHANGED outsideParse
    /\ parse_pc = "call"
    /\ ~ parse_page(page_html).ok
    /\ parse_pc' = "raised"
    /\ UNCHANGED <<page_html, parsed>>

(***************************************************************************)
(* export_page.  asyncio.gather runs save_raw_html, save_json and          *)
(* save_txt_chunks as three tasks.  A writer is at                         *)
(*   "open"      awaiting aiofiles.open of its idx-th file                 *)
(*   "write"     awaiting f.write                                          *)
(*   "close"     awaiting the close on leaving the async with              *)
(*   "done"      returned                                                  *)
(*   "failed"    ended by the exception of one of its awaits               *)
(*   "cancelled" cancelled when the event loop was shut down               *)
(* A file is "absent", "empty" (opened for writing) or "written".          *)
(***************************************************************************)
\* The largest number of chunks export_page is called with.
MaxChunks == 2

Writers == {"raw_html", "json", "txt"}

\* The number of files a writer writes: one, or one per chunk.
FileCount(w) == IF w = "txt" THEN n_chunks ELSE 1

\* <dir>/<sanitized url>.html, .json, _chunk<i>.txt
FileNames == {<<w, i>> : w \in Writers, i \in 1..MaxChunks}

Running(w) == writer[w].pc \in {"open", "write", "close"}

\* Lines 51, 59, 70: the subdirectory of the output directory a writer
\* writes into.
Dir(w) == w

\* exporter.py:18-19: the subdirectory ContentExporter.__init__ creates.
\* _setup_directories (lines 36-40) is called from nowhere.
MadeByExporter == {"txt"}

\* aiofiles.open(filepath, 'w') returns: the file exists and is empty.  The
\* open creates the file, not its directory.
OpenOk(w) ==
    /\ UNCHANGED outsideExport
    /\ UNCHANGED pdfVars
    /\ UNCHANGED dirVars
    /\ loop = "running"
    /\ writer[w].pc = "open"
    /\ Dir(w) \in dirs
    /\ files' = [files EXCEPT ![<<w, writer[w].idx>>] = "empty"]
    /\ writer' = [writer EXCEPT ![w].pc = "write"]
    /\ UNCHANGED <<n_chunks, export_pc, loop>>

\* aiofiles.open raises: FileNotFoundError when the directory is missing,
\* some other OSError (permissions, disk) when it exists.
OpenFails(w) ==
    /\ UNCHANGED outsideExport
    /\ UNCHANGED pdfVars
    /\ loop = "running"
    /\ writer[w].pc = "open"
    /\ writer' = [writer EXCEPT ![w].pc = "failed"]
    /\ open_errors' = [open_errors EXCEPT
                          ![w] = IF Dir(w) \in dirs THEN "other" ELSE "missing_dir"]
    /\ UNCHANGED <<n_chunks, files, export_pc, loop, dirs>>

\* f.write(...) returns.
WriteOk(w) ==
    /\ UNCHANGED outsideExport
    /\ UNCHANGED pdfVars
    /\ UNCHANGED dirVars
    /\ loop = "running"
    /\ writer[w].pc = "write"
    /\ files' = [files EXCEPT ![<<w, writer[w].idx>>] = "written"]
    /\ writer' = [writer EXCEPT ![w].pc = "close"]
    /\ UNCHANGED <<n_chunks, export_pc, loop>>

\* f.write(...) raises.
WriteFails(w) ==
    /\ UNCHANGED outsideExport
    /\ UNCHANGED pdfVars
    /\ UNCHANGED dirVars
    /\ loop = "running"
    /\ writer[w].pc = "write"
    /\ writer' = [writer EXCEPT ![w].pc = "failed"]
    /\ UNCHANGED <<n_chunks, files, export_pc, loop>>

\* The file is closed; save_txt_chunks goes on to open its next file.
CloseOk(w) ==
    /\ UNCHANGED outsideExport
    /\ UNCHANGED pdfVars
    /\ UNCHANGED dirVars
    /\ loop = "running"
    /\ writer[w].pc = "close"
    /\ writer' = [writer EXCEPT ![w] =
                     IF @.idx < FileCount(w)
                     THEN [pc |-> "open", idx |-> @.idx + 1]
                     ELSE [pc |-> "done", idx |-> @.idx]]
    /\ UNCHANGED <<n_chunks, files, export_pc, loop>>

\* Closing the file raises.
CloseFails(w) ==
    /\ UNCHANGED outsideExport
    /\ UNCHANGED pdfVars
    /\ UNCHANGED dirVars
    /\ loop = "running"
    /\ writer[w].pc = "close"
    /\ writer' = [writer EXCEPT ![w].pc = "failed"]
    /\ UNCHANGED <<n_chunks, files, export_pc, loop>>

\* Line 108, asyncio.gather without return_exceptions: the first exception of
\* a writer is raised in export_page at once; the other writers are left
\* running.
GatherRaises == \E w \in Writers : writer[w].pc = "failed"

\* Lines 108-112: gather raises; export_page ends with the exception.
ExportRaise ==
    /\ UNCHANGED outsideExport
    /\ UNCHANGED pdfVars
    /\ UNCHANGED dirVars
    /\ loop = "running"
    /\ export_pc = "gather"
    /\ GatherRaises
    /\ export_pc' = "raised"
    /\ UNCHANGED <<n_chunks, writer, files, loop>>

\* exporter.py:11, from config import PDF_ENABLED: the exporter module's own
\* name, bound when the module is imported to the value of config.py:28.  The
\* entry points assign to the name PDF_ENABLED of their own module
\* (main.py:142-143, server.py:35-36), which leaves this one as it is.
PDF_ENABLED == FALSE

\* Lines 108-116: the three writers returned; save_pdf is called if the
\* exporter's PDF_ENABLED is set, and export_page returns.
ExportReturn ==
    /\ UNCHANGED outsideExport
    /\ UNCHANGED dirVars
    /\ loop = "running"
    /\ export_pc = "gather"
    /\ \A w \in Writers : writer[w].pc = "done"
    /\ pdf_attempted' = PDF_ENABLED
    /\ export_pc' = "returned"
    /\ UNCHANGED <<n_chunks, writer, files, loop, pdf_export>>

\* main.py:147, asyncio.run: the caller of export_page has ended, and the loop
\* is shut down; tasks that have not ended are cancelled.
LoopClose ==
    /\ UNCHANGED outsideExport
    /\ UNCHANGED pdfVars
    /\ UNCHANGED dirVars
    /\ loop = "running"
    /\ export_pc \in {"returned", "raised"}
    /\ loop' = "closed"
    /\ writer' = [w \in Writers |->
                     IF Running(w) THEN [writer[w] EXCEPT !.pc = "cancelled"]
                     ELSE writer[w]]
    /\ UNCHANGED <<n_chunks, files, export_pc>>

(***************************************************************************)
(* scrape_site.  It runs as one task; the body of the page loop has no     *)
(* await that suspends it before export_page, so one action is one page.   *)
(***************************************************************************)
\* The largest number of pages crawl returns.
MaxPages == 2

\* The URLs of the pages crawl returns, in the order of the result.
PageUrls == <<SeedUrl, P1, P2, P3>>

\* Markup that parses, markup that parses to an empty content, markup
\* parse_page raises on, and markup of whitespace only.
GoodHtml == <<[name |-> "p", text |-> <<"a", "a">>]>>
SpecialHtml == <<[name |-> "p", text |-> <<"@">>]>>
UnreadHtml == <<[name |-> "div", text |-> <<"a">>]>>
WhiteHtml == << >>

PageHtmls == {GoodHtml, SpecialHtml, UnreadHtml, WhiteHtml}

\* fetcher.py:138-141, what crawl returns.  failed_urls is never added to
\* when fetch_page runs, so the list is empty.
CrawlResults ==
    UNION {{[pages |-> [i \in 1..n |-> [url |-> PageUrls[i], html |-> h[i]]],
             failed_urls |-> << >>] : h \in [1..n -> PageHtmls]} : n \in 0..MaxPages}

\* The text of a page's markup.
RECURSIVE Render(_)
Render(html) ==
    IF html = << >> THEN << >>
    ELSE <<"<", Head(html).name, ">">> \o Head(html).text
         \o <<"</", Head(html).name, ">">> \o Render(Tail(html))

\* exporter.py:27-30, the name save_txt writes to: the path of the URL
\* without its outer slashes, "index" when nothing is left, and ".txt".
TxtName(url) ==
    IF Len(url) <= 2 \/ SubSeq(url, 3, Len(url)) = <<"/">> THEN <<"index", ".txt">>
    ELSE SubSeq(url, 3, Len(url)) \o <<".txt">>

TxtNames == {TxtName(PageUrls[i]) : i \in DOMAIN PageUrls}

NoFile == [exists |-> FALSE, text |-> << >>]

\* exporter.py:32-33: open(path, "w") may fail and leave the file as it was;
\* f.write may fail and leave it truncated.
WriteOutcomes == {"ok", "open_fails", "write_fails"}

save_txt(dir, url, text, outcome) ==
    CASE outcome = "ok" -> [dir EXCEPT ![TxtName(url)] = [exists |-> TRUE, text |-> text]]
      [] outcome = "write_fails" ->
             [dir EXCEPT ![TxtName(url)] = [exists |-> TRUE, text |-> << >>]]
      [] outcome = "open_fails" -> dir

\* exporter.py:22: save_txt is a plain def without a return statement, so a
\* call that does not raise gives None.
save_txt_result == "None"

\* await value: a coroutine is run; any value that is not awaitable raises
\* TypeError.
Awaitable(value) == value = "coroutine"

\* The handlers of a loop body without the try around the whole page: an
\* exception of the fallback write reaches the except of line 111.
HandlerNoPageTry(place) ==
    CASE place = "export" -> "export_error"
      [] place = "fallback" -> "scrape_error"

\* The except clause of scrape_site that takes an exception raised at a
\* place of the loop body: in the export try (lines 64-68) it is line 69; in
\* the handler of line 73 (the fallback write of line 76) it is line 79, the
\* except of the try around the whole page.
Handler(place) ==
    CASE place = "export" -> "export_error"
      [] place = "fallback" -> "page_error"

NoMetadata ==
    [doc_count |-> 0, total_tokens |-> 0, exported |-> << >>, failed_urls |-> << >>]

total_pages == Len(crawl_results.pages)

\* The doc_count that leaves out the pages counted as errors.
DocCountWithoutErrors == total_pages - total_errors

\* Line 98.
doc_count == total_pages

\* Lines 94-103.  PDF_ENABLED on line 101 is the name of main.py, which main
\* has set to the choice made at the entry point.
RunMetadata ==
    [doc_count |-> doc_count,
     total_tokens |-> total_tokens,
     exported |-> <<"json", "txt">> \o (IF pdf_export THEN <<"pdf">> ELSE << >>),
     failed_urls |-> crawl_results.failed_urls]

\* Lines 18-20: the logger and the exporter create their directories.
ScrapeSetupOk ==
    /\ UNCHANGED outsideScrape
    /\ scrape_pc = "setup"
    /\ scrape_pc' = "enter"
    /\ UNCHANGED <<crawl_results, page_idx, total_tokens, total_errors, txt_files,
                   metadata, metadata_file, page_log, abort_cause>>

\* Lines 18-20: os.makedirs or the log file's open raises, outside the try.
ScrapeSetupFails ==
    /\ UNCHANGED outsideScrape
    /\ scrape_pc = "setup"
    /\ scrape_pc' = "raised"
    /\ abort_cause' = "directories"
    /\ UNCHANGED <<crawl_results, page_idx, total_tokens, total_errors, txt_files,
                   metadata, metadata_file, page_log>>

\* Line 27, fetcher.py:24-27: playwright started and the browser launched.
FetcherEnterOk ==
    /\ UNCHANGED outsideScrape
    /\ scrape_pc = "enter"
    /\ scrape_pc' = "crawl"
    /\ UNCHANGED <<crawl_results, page_idx, total_tokens, total_errors, txt_files,
                   metadata, metadata_file, page_log, abort_cause>>

\* Line 27, fetcher.py:24-27 raise; lines 111-113 raise again.
FetcherEnterFails ==
    /\ UNCHANGED outsideScrape
    /\ scrape_pc = "enter"
    /\ scrape_pc' = "raised"
    /\ abort_cause' = "backend_start"
    /\ UNCHANGED <<crawl_results, page_idx, total_tokens, total_errors, txt_files,
                   metadata, metadata_file, page_log>>

\* Line 28: crawl returns.
CrawlReturns ==
    /\ UNCHANGED outsideScrape
    /\ scrape_pc = "crawl"
    /\ crawl_results' \in CrawlResults
    /\ scrape_pc' = "exit"
    /\ UNCHANGED <<page_idx, total_tokens, total_errors, txt_files,
                   metadata, metadata_file, page_log, abort_cause>>

\* fetcher.py:29-33: the browser closed and playwright stopped; lines 30-35.
FetcherExitOk ==
    /\ UNCHANGED outsideScrape
    /\ scrape_pc = "exit"
    /\ scrape_pc' = "pages"
    /\ page_idx' = 1
    /\ total_tokens' = 0
    /\ total_errors' = 0
    /\ UNCHANGED <<crawl_results, txt_files, metadata, metadata_file, page_log,
                   abort_cause>>

\* fetcher.py:29-33 raise; lines 111-113 raise again.
FetcherExitFails ==
    /\ UNCHANGED outsideScrape
    /\ scrape_pc = "exit"
    /\ scrape_pc' = "raised"
    /\ abort_cause' = "backend_stop"
    /\ UNCHANGED <<crawl_results, page_idx, total_tokens, total_errors, txt_files,
                   metadata, metadata_file, page_log>>

InLoop == scrape_pc = "pages" /\ page_idx <= total_pages

\* Lines 36-50: a page whose markup is whitespace is passed over.
PageSkipped ==
    /\ UNCHANGED outsideScrape
    /\ InLoop
    /\ LET page == crawl_results.pages[page_idx]
       IN  /\ page.html = WhiteHtml
           /\ page_log' = Append(page_log,
                  [url |-> page.url, step |-> "skipped", write |-> "none",
                   export_attempted |-> FALSE, errors |-> 0])
    /\ page_idx' = page_idx + 1
    /\ UNCHANGED <<scrape_pc, crawl_results, total_tokens, total_errors, txt_files,
                   metadata, metadata_file, abort_cause>>

\* Lines 36-71: parse_page returns.  The chunks of line 60 go to export_page
\* only.  Line 66 calls save_txt, which writes, and awaits what it gave;
\* line 68 is reached when neither raised, and export_page then returns or
\* raises.  Whatever is raised on lines 66-68 is counted on line 71.
PageParsed ==
    /\ UNCHANGED outsideScrape
    /\ InLoop
    /\ LET page == crawl_results.pages[page_idx]
           parsed_data == parse_page(page.html)
       IN  /\ page.html # WhiteHtml
           /\ parsed_data.ok
           /\ total_tokens' = total_tokens + parsed_data.tokens
           /\ \E outcome \in WriteOutcomes, exported \in BOOLEAN :
                 LET attempted == outcome = "ok" /\ Awaitable(save_txt_result)
                     raised == ~ attempted \/ ~ exported
                     errors == IF raised /\ Handler("export") = "export_error"
                               THEN 1 ELSE 0
                 IN  /\ attempted \/ exported
                     /\ txt_files' = save_txt(txt_files, page.url,
                                              parsed_data.content, outcome)
                     /\ total_errors' = total_errors + errors
                     /\ page_log' = Append(page_log,
                            [url |-> page.url, step |-> "parsed", write |-> outcome,
                             export_attempted |-> attempted, errors |-> errors])
    /\ page_idx' = page_idx + 1
    /\ UNCHANGED <<scrape_pc, crawl_results, metadata, metadata_file, abort_cause>>

\* The parse failure that is only counted: no fallback write.
PageParseFailedNoFallback ==
    /\ UNCHANGED outsideScrape
    /\ InLoop
    /\ LET page == crawl_results.pages[page_idx]
       IN  /\ page.html # WhiteHtml
           /\ ~ parse_page(page.html).ok
           /\ page_log' = Append(page_log,
                  [url |-> page.url, step |-> "parse_failed", write |-> "none",
                   export_attempted |-> FALSE, errors |-> 1])
    /\ total_errors' = total_errors + 1
    /\ page_idx' = page_idx + 1
    /\ UNCHANGED <<scrape_pc, crawl_results, total_tokens, txt_files, metadata,
                   metadata_file, abort_cause>>

\* Lines 36-58 and 73-82: parse_page raises.  Line 76 calls save_txt with the
\* markup, which writes, and awaits what it gave.  When neither raised the
\* failure is counted on line 77; when one did, line 77 is passed over and the
\* handler of the exception counts on line 81, or the exception ends the run.
PageParseFailed ==
    /\ UNCHANGED outsideScrape
    /\ InLoop
    /\ LET page == crawl_results.pages[page_idx]
       IN  /\ page.html # WhiteHtml
           /\ ~ parse_page(page.html).ok
           /\ \E outcome \in WriteOutcomes :
                 LET raised == outcome # "ok" \/ ~ Awaitable(save_txt_result)
                     caught == ~ raised \/ Handler("fallback") = "page_error"
                 IN  /\ txt_files' = save_txt(txt_files, page.url,
                                              Render(page.html), outcome)
                     /\ total_errors' = total_errors + (IF caught THEN 1 ELSE 0)
                     /\ page_log' = Append(page_log,
                            [url |-> page.url, step |-> "parse_failed",
                             write |-> outcome, export_attempted |-> FALSE,
                             errors |-> IF caught THEN 1 ELSE 0])
                     /\ scrape_pc' = IF caught THEN "pages" ELSE "raised"
                     /\ abort_cause' = IF caught THEN abort_cause ELSE "page"
    /\ page_idx' = page_idx + 1
    /\ UNCHANGED <<crawl_results, total_tokens, metadata, metadata_file>>

\* Lines 84-109: the loop is over; the metadata is built and save_metadata
\* (exporter.py:96-101) writes it; scrape_site returns it.
SaveMetadataOk ==
    /\ UNCHANGED outsideScrape
    /\ scrape_pc = "pages"
    /\ page_idx > total_pages
    /\ metadata' = RunMetadata
    /\ metadata_file' = "written"
    /\ scrape_pc' = "returned"
    /\ UNCHANGED <<crawl_results, page_idx, total_tokens, total_errors, txt_files,
                   page_log, abort_cause>>

\* Lines 84-106 and 111-113: aiofiles.open or f.write of save_metadata
\* raises; the except of line 111 logs and raises again.
SaveMetadataFails ==
    /\ UNCHANGED outsideScrape
    /\ scrape_pc = "pages"
    /\ page_idx > total_pages
    /\ metadata' = RunMetadata
    /\ metadata_file' \in {"absent", "empty"}
    /\ scrape_pc' = "raised"
    /\ abort_cause' = "metadata"
    /\ UNCHANGED <<crawl_results, page_idx, total_tokens, total_errors, txt_files,
                   page_log>>

(***************************************************************************)
(* Specifications.                                                         *)
(***************************************************************************)
NoResult == [pages |-> << >>, failed_urls |-> << >>]

\* A fetcher whose crawl has just been called.
FetchInit ==
    /\ start_url \in StartUrls
    /\ seed_hrefs \in SUBSET SeedHrefs
    /\ visited_urls = {}
    /\ failed_urls = {}
    /\ semaphore = MAX_CONCURRENCY
    /\ tasks = [t \in {SeedTask} |-> NewFrame(start_url)]
    /\ open_pages = 0
    /\ crawl_pc = "seed"
    /\ crawl_result = NoResult
    /\ attempts = [u \in Urls |-> 0]
    /\ passed = [u \in Urls |-> 0]
    /\ sleeps = [u \in Urls |-> << >>]
    /\ succeeded = {}
    /\ waited = {}

\* No crawl in progress.
FetchIdle ==
    /\ start_url = EmptyUrl
    /\ seed_hrefs = {}
    /\ visited_urls = {}
    /\ failed_urls = {}
    /\ semaphore = MAX_CONCURRENCY
    /\ tasks = << >>
    /\ open_pages = 0
    /\ crawl_pc = "idle"
    /\ crawl_result = NoResult
    /\ attempts = [u \in Urls |-> 0]
    /\ passed = [u \in Urls |-> 0]
    /\ sleeps = [u \in Urls |-> << >>]
    /\ succeeded = {}
    /\ waited = {}

\* lines 32-34 of chunk_content, for a parser about to chunk some content.
ChunkStart ==
    /\ chunk_pc = "split"
    /\ sentences = << >>
    /\ chunks = << >>
    /\ current_chunk = << >>
    /\ current_tokens = 0
    /\ groups = << >>
    /\ chunk_records = << >>

\* No chunking in progress.
ChunkIdle ==
    /\ tokenizer = "words"
    /\ content = << >>
    /\ chunk_pc = "idle"
    /\ sentences = << >>
    /\ chunks = << >>
    /\ current_chunk = << >>
    /\ current_tokens = 0
    /\ groups = << >>
    /\ chunk_records = << >>

\* No export in progress.
ExportIdle ==
    /\ n_chunks = 0
    /\ writer = [w \in Writers |-> [pc |-> "done", idx |-> 1]]
    /\ files = [f \in FileNames |-> "absent"]
    /\ export_pc = "idle"
    /\ loop = "running"
    /\ pdf_export = FALSE
    /\ pdf_attempted = FALSE
    /\ dirs = {}
    /\ open_errors = [w \in Writers |-> "none"]

\* No parse in progress.
ParseIdle ==
    /\ page_html = << >>
    /\ parse_pc = "idle"
    /\ parsed = ParseError

\* No run of scrape_site in progress.
ScrapeIdle ==
    /\ scrape_pc = "idle"
    /\ crawl_results = NoResult
    /\ page_idx = 1
    /\ total_tokens = 0
    /\ total_errors = 0
    /\ txt_files = [f \in TxtNames |-> NoFile]
    /\ metadata = NoMetadata
    /\ metadata_file = "absent"
    /\ page_log = << >>
    /\ abort_cause = "none"

\* A crawl: AsyncFetcher(base_url).crawl(start_url).
Init == FetchInit /\ ChunkIdle /\ ExportIdle /\ ParseIdle /\ ScrapeIdle

Next ==
    \/ \E t \in DOMAIN tasks : FetchPageCall(t)
    \/ \E t \in DOMAIN tasks : SemaphoreAcquire(t)
    \/ \E t \in DOMAIN tasks : NewPageOk(t)
    \/ \E t \in DOMAIN tasks : NewPageFails(t)
    \/ \E t \in DOMAIN tasks : PageLoadOk(t)
    \/ \E t \in DOMAIN tasks : PageLoadFails(t)
    \/ \E t \in DOMAIN tasks : PageCloseOk(t)
    \/ \E t \in DOMAIN tasks : PageCloseFails(t)
    \/ \E t \in DOMAIN tasks : BackoffDone(t)
    \/ CrawlSeedFailed
    \/ CrawlSpawn
    \/ CrawlGather

Spec == Init /\ [][Next]_vars

\* A step of some task other than getting a slot at the gate: its first run
\* by the event loop, or the completion or failure of the operation it awaits
\* (new_page, the page load, page.close, asyncio.sleep).
TaskStep ==
    \E t \in DOMAIN tasks :
        \/ FetchPageCall(t)
        \/ NewPageOk(t)
        \/ NewPageFails(t)
        \/ PageLoadOk(t)
        \/ PageLoadFails(t)
        \/ PageCloseOk(t)
        \/ PageCloseFails(t)
        \/ BackoffDone(t)

\* Some task gets a slot at the gate.
GateStep == \E t \in DOMAIN tasks : SemaphoreAcquire(t)

\* crawl runs on when what it awaits is done.
CrawlStep == CrawlSeedFailed \/ CrawlSpawn \/ CrawlGather

\* The event loop runs a task that is ready, and an awaited operation
\* completes or fails (weak fairness); the gate hands a slot that is free
\* again and again to a task that waits for one (strong fairness).
Fairness ==
    /\ WF_vars(TaskStep)
    /\ SF_vars(GateStep)
    /\ WF_vars(CrawlStep)

\* The hrefs of the start page that extract_links keeps: only these get a
\* task.
KeptHrefs == {h \in SeedHrefs : _is_valid_url(Urljoin(base_url, h))}

\* The crawl of scrape_site (main.py:27-28): the fetcher is built for the URL
\* it is asked to crawl.  The start page carries any of the hrefs that get a
\* task.
FairInit ==
    /\ Init
    /\ start_url = base_url
    /\ seed_hrefs \subseteq KeptHrefs

\* That crawl under a fair event loop and gate.
FairSpec == FairInit /\ [][Next]_vars /\ Fairness

\* A chunking: ContentParser().get_chunks(content), for any content and
\* tokenizer.
ChunkInit ==
    /\ FetchIdle
    /\ ExportIdle
    /\ ParseIdle
    /\ ScrapeIdle
    /\ tokenizer \in Tokenizers
    /\ content \in Texts
    /\ ChunkStart

ChunkNext ==
    \/ ChunkSplit
    \/ ChunkSentence
    \/ ChunkFlush
    \/ GetChunks

ChunkSpec == ChunkInit /\ [][ChunkNext]_vars

\* An export under asyncio.run, by an exporter constructed on an output
\* directory that may or may not hold subdirectories of an earlier run
\* (main.py:125, os.makedirs(output_dir, exist_ok=True)); the constructor has
\* created txt.  export_page(page_data, chunks) awaits gather,
\* and the three coroutines have run up to their first aiofiles.open (the loop
\* runs the first step of each before it handles the completion of any open).
\* chunk_content returns at least one chunk, so there is at least one.  The
\* entry point has asked whether to export PDF (main.py:141-143).
ExportInit ==
    /\ FetchIdle
    /\ ChunkIdle
    /\ ParseIdle
    /\ ScrapeIdle
    /\ dirs \in {MadeByExporter \cup d : d \in SUBSET Writers}
    /\ open_errors = [w \in Writers |-> "none"]
    /\ pdf_export \in BOOLEAN
    /\ pdf_attempted = FALSE
    /\ n_chunks \in 1..MaxChunks
    /\ writer = [w \in Writers |-> [pc |-> "open", idx |-> 1]]
    /\ files = [f \in FileNames |-> "absent"]
    /\ export_pc = "gather"
    /\ loop = "running"

ExportNext ==
    \/ \E w \in Writers : OpenOk(w)
    \/ \E w \in Writers : OpenFails(w)
    \/ \E w \in Writers : WriteOk(w)
    \/ \E w \in Writers : WriteFails(w)
    \/ \E w \in Writers : CloseOk(w)
    \/ \E w \in Writers : CloseFails(w)
    \/ ExportRaise
    \/ ExportReturn
    \/ LoopClose

ExportSpec == ExportInit /\ [][ExportNext]_vars

\* A parse: ContentParser().parse_page(page_data), for any markup and
\* tokenizer.
ParseInit ==
    /\ FetchIdle
    /\ ExportIdle
    /\ ScrapeIdle
    /\ tokenizer \in Tokenizers
    /\ content = << >>
    /\ chunk_pc = "idle"
    /\ sentences = << >>
    /\ chunks = << >>
    /\ current_chunk = << >>
    /\ current_tokens = 0
    /\ groups = << >>
    /\ chunk_records = << >>
    /\ page_html \in Htmls
    /\ parse_pc = "call"
    /\ parsed = ParseError

ParseNext ==
    \/ ParsePageReturns
    \/ ParsePageRaises

ParseSpec == ParseInit /\ [][ParseNext]_vars

\* A run: main() has taken the PDF choice and asyncio.run has started
\* scrape_site(url, output_dir) in a new output directory.
ScrapeInit ==
    /\ FetchIdle
    /\ ChunkIdle
    /\ ParseIdle
    /\ n_chunks = 0
    /\ writer = [w \in Writers |-> [pc |-> "done", idx |-> 1]]
    /\ files = [f \in FileNames |-> "absent"]
    /\ export_pc = "idle"
    /\ loop = "running"
    /\ pdf_export \in BOOLEAN
    /\ pdf_attempted = FALSE
    /\ dirs = {}
    /\ open_errors = [w \in Writers |-> "none"]
    /\ scrape_pc = "setup"
    /\ crawl_results = NoResult
    /\ page_idx = 1
    /\ total_tokens = 0
    /\ total_errors = 0
    /\ txt_files = [f \in TxtNames |-> NoFile]
    /\ metadata = NoMetadata
    /\ metadata_file = "absent"
    /\ page_log = << >>
    /\ abort_cause = "none"

ScrapeNext ==
    \/ ScrapeSetupOk
    \/ ScrapeSetupFails
    \/ FetcherEnterOk
    \/ FetcherEnterFails
    \/ CrawlReturns
    \/ FetcherExitOk
    \/ FetcherExitFails
    \/ PageSkipped
    \/ PageParsed
    \/ PageParseFailed
    \/ SaveMetadataOk
    \/ SaveMetadataFails

ScrapeSpec == ScrapeInit /\ [][ScrapeNext]_vars

(***************************************************************************)
(* Properties of the crawler, checked under Spec.                          *)
(***************************************************************************)
\* The URLs whose retrieval was attempted and never returned a page.
AlwaysFailed == {u \in Urls : attempts[u] > 0 /\ u \notin succeeded}

\* The elements of a sequence.
Range(s) == {s[i] : i \in DOMAIN s}

\* The delays 2^0 .. 2^(MAX_RETRIES-1) between MAX_RETRIES + 1 attempts.
FullBackoff == [i \in 1..MAX_RETRIES |-> 2 ^ (i - 1)]

\* C1: when crawl has returned, a URL whose retrieval failed on every attempt
\* has had exactly MAX_RETRIES + 1 retrieval attempts, and the delay slept
\* between attempt i and attempt i+1 was 2^i.
C1_RetriesAndBackoff ==
    crawl_pc = "returned" =>
        \A u \in AlwaysFailed :
            attempts[u] = MAX_RETRIES + 1 /\ sleeps[u] = FullBackoff

\* C2: when crawl has returned, every URL whose retrieval was attempted and
\* never succeeded is in the returned failed_urls; if that URL is the start
\* URL the result has no pages.
C2_FailedUrlsReported ==
    crawl_pc = "returned" =>
        /\ AlwaysFailed \subseteq Range(crawl_result.failed_urls)
        /\ (start_url \in AlwaysFailed => crawl_result.pages = << >>)

\* C3: the number of fetch tasks between acquiring and releasing the gate
\* never exceeds MAX_CONCURRENCY.
C3_BoundedInFlight == Cardinality(InFlight) <= MAX_CONCURRENCY

\* C3 witness: the gate is full and another task waits for a slot.
C3_Witness ==
    /\ Cardinality(InFlight) = MAX_CONCURRENCY
    /\ \E t \in DOMAIN tasks : tasks[t].pc = "acquire"

\* C4: for every URL, the visited check is passed at most once in a crawl,
\* whatever the interleaving of the tasks, so at most one task proceeds to
\* retrieve it.
C4_CheckPassedOnce == \A u \in Urls : passed[u] <= 1

\* C4 witness: two tasks were given the same URL (the start page links to
\* itself), both have returned, and one of them passed the check.
C4_Witness ==
    /\ LinkTask(start_url) \in DOMAIN tasks
    /\ tasks[LinkTask(start_url)].pc = "done"
    /\ passed[start_url] = 1

\* C5: in the result crawl returns, no URL occurs twice in pages, none occurs
\* twice in failed_urls, and none occurs in both.
C5_ResultUrlsDistinct ==
    crawl_pc = "returned" =>
        LET pages == crawl_result.pages
            failed == crawl_result.failed_urls
        IN  /\ \A i, j \in DOMAIN pages : pages[i].url = pages[j].url => i = j
            /\ \A i, j \in DOMAIN failed : failed[i] = failed[j] => i = j
            /\ \A i \in DOMAIN pages : pages[i].url \notin Range(failed)

\* C5 witness: crawl returned several pages although a link led back to the
\* start page.
C5_Witness ==
    /\ crawl_pc = "returned"
    /\ Len(crawl_result.pages) >= 3
    /\ LinkTask(start_url) \in DOMAIN tasks

\* A URL fetch_page must skip: empty, containing a blacklist pattern, or on
\* another host than the fetcher's.
MustSkip(url) ==
    \/ url = << >>
    \/ \E p \in BLACKLIST_PATTERNS : Contains(url, p)
    \/ Netloc(url) # Netloc(base_url)

\* C6: no retrieval is ever attempted for an empty, blacklisted or off-host
\* URL, and no such URL is ever in visited_urls.
C6_InvalidNeverFetched ==
    \A u \in Urls : MustSkip(u) => attempts[u] = 0 /\ u \notin visited_urls

\* C6 witness: fetch_page was called with an off-host URL and has returned.
C6_Witness ==
    /\ start_url = ExtUrl
    /\ tasks[SeedTask].pc = "done"

\* The start URL and the links of the start page's markup.
OneHop == {start_url} \cup {Urljoin(start_url, h) : h \in seed_hrefs}

C19_SlotsHeldOnlyInRetrieval ==
    /\ semaphore = MAX_CONCURRENCY - Cardinality(InFlight)
    /\ crawl_pc = "returned" => semaphore = MAX_CONCURRENCY

\* C19 witness: crawl returned after a retrieval that succeeded and one that
\* failed and was backed off.
C19_Witness ==
    /\ crawl_pc = "returned"
    /\ succeeded # {}
    /\ \E u \in AlwaysFailed : sleeps[u] # << >>

\* The tasks that are inside an attempt with a browser page open.
WithPage == {t \in DOMAIN tasks : tasks[t].pc \in {"load", "close"}}

\* C20: every open browser page belongs to an attempt that has not ended, so
\* there are never more than MAX_CONCURRENCY of them, and none when crawl has
\* returned.
C20_PagesClosed ==
    /\ open_pages <= Cardinality(WithPage)
    /\ open_pages <= MAX_CONCURRENCY
    /\ crawl_pc = "returned" => open_pages = 0

(***************************************************************************)
(* Properties of the chunker, checked under ChunkSpec.                     *)
(***************************************************************************)
\* C8: every chunk get_chunks returns has a token count of at most
\* CHUNK_SIZE, unless it is a single sentence that alone exceeds CHUNK_SIZE.
C8_ChunksWithinBudget ==
    chunk_pc = "done" =>
        \A i \in DOMAIN chunk_records :
            \/ chunk_records[i].tokens <= CHUNK_SIZE
            \/ Len(groups[i]) = 1 /\ count_tokens(groups[i][1]) > CHUNK_SIZE

\* C9: the chunks, joined in order with single spaces, split into the
\* sentences of the content: none dropped, duplicated or reordered.
C9_ChunksReproduceSentences ==
    chunk_pc \in {"count", "done"} =>
        SplitSentences(Join(chunks, Space)) = SplitSentences(content)

\* C9 witness: a content of at least three sentences came out as several
\* chunks, one of them joined from several sentences.
C9_Witness ==
    /\ chunk_pc = "done"
    /\ Len(SplitSentences(content)) >= 3
    /\ Len(chunks) >= 2
    /\ \E i \in DOMAIN groups : Len(groups[i]) >= 2

(***************************************************************************)
(* Properties of the exporter, checked under ExportSpec.                   *)
(***************************************************************************)
\* The files writer w is to write.
FilesOf(w) == {<<w, i>> : i \in 1..FileCount(w)}

\* C10: when the run has ended and one of the three writes of export_page
\* failed, each of the other writes that did not fail itself has been carried
\* out to the end and its files hold their content.
C10_OtherWritesComplete ==
    loop = "closed" =>
        \A w \in Writers :
            (/\ \E v \in Writers \ {w} : writer[v].pc = "failed"
             /\ writer[w].pc # "failed")
            => /\ writer[w].pc = "done"
               /\ \A f \in FilesOf(w) : files[f] = "written"

(***************************************************************************)
(* More properties of the chunker, checked under ChunkSpec.                *)
(***************************************************************************)
\* C17: a sentence whose own token count exceeds CHUNK_SIZE comes out as a
\* chunk of exactly that sentence, and the chunks next to it are not empty.
C17_OversizedSentenceAlone ==
    chunk_pc = "done" =>
        \A i \in DOMAIN groups :
            (\E j \in DOMAIN groups[i] : count_tokens(groups[i][j]) > CHUNK_SIZE)
            => /\ Len(groups[i]) = 1
               /\ chunks[i] = groups[i][1]
               /\ i > 1 => chunks[i - 1] # << >>
               /\ i < Len(chunks) => chunks[i + 1] # << >>

(***************************************************************************)
(* More properties of the exporter, checked under ExportSpec.              *)
(***************************************************************************)
\* C14: export_page attempts the PDF export exactly when the PDF choice of
\* the entry point is set, and only once the three writes have completed;
\* without the choice no PDF is attempted.
C14_PdfWhenChosen ==
    /\ export_pc = "returned" => pdf_attempted = pdf_export
    /\ pdf_attempted => \A w \in Writers : writer[w].pc = "done"
    /\ ~ pdf_export => ~ pdf_attempted

(***************************************************************************)
(* Properties of the parser, checked under ParseSpec.                      *)
(***************************************************************************)
\* C18: parse_page never returns a page whose cleaned content is empty.
C18_NoEmptyParsedContent == parse_pc = "returned" => parsed.content # << >>

(***************************************************************************)
(* Properties of scrape_site, checked under ScrapeSpec.                    *)
(***************************************************************************)
\* C11: for every page that parsed, the full export (export_page) is
\* attempted whenever the safety-net write was performed, and only then.
C11_ExportAfterSafetyNet ==
    \A i \in DOMAIN page_log :
        page_log[i].step = "parsed"
        => (page_log[i].export_attempted <=> page_log[i].write = "ok")

\* The pages the loop has been through are the first pages of the result.
LoggedInOrder ==
    /\ Len(page_log) <= total_pages
    /\ \A i \in DOMAIN page_log : page_log[i].url = crawl_results.pages[i].url

\* C12: a parse failure or an export failure on a page never ends the run:
\* no exception of the page loop makes scrape_site raise, the loop is over
\* only when it has been through every page of the result, and a run that
\* returns has written the metadata.
C12_PageFailuresDoNotAbort ==
    /\ abort_cause # "page"
    /\ LoggedInOrder
    /\ (scrape_pc = "returned" \/ abort_cause = "metadata")
       => Len(page_log) = total_pages
    /\ scrape_pc = "returned" => metadata_file = "written"

\* A run returned after a page that failed to parse and whose fallback write
\* failed too, and then a page whose export failed.
C12_Witness ==
    /\ scrape_pc = "returned"
    /\ \E i, j \in DOMAIN page_log :
          /\ i < j
          /\ page_log[i].step = "parse_failed"
          /\ page_log[i].write = "open_fails"
          /\ page_log[j].step = "parsed"
          /\ page_log[j].errors = 1

\* C13: scrape_site raises only when setup fails: the output directories
\* cannot be created or the retrieval backend cannot be started.  No later
\* failure, the write of the run metadata included, makes it raise.
C13_OnlySetupAborts ==
    scrape_pc = "raised" => abort_cause \in {"directories", "backend_start"}

RECURSIVE SumErrors(_)
SumErrors(log) == IF log = << >> THEN 0 ELSE Head(log).errors + SumErrors(Tail(log))

\* C15: when parse_page fails for a page with markup, the markup is written
\* to the page's text file (the write is made, and the file holds the markup
\* when the write succeeds) and the failure is counted once.
C15_ParseFailureFallback ==
    /\ total_errors = SumErrors(page_log)
    /\ \A i \in DOMAIN page_log :
          page_log[i].step = "parse_failed"
          => /\ page_log[i].errors = 1
             /\ page_log[i].write \in WriteOutcomes
             /\ page_log[i].write = "ok"
                => txt_files[TxtName(page_log[i].url)]
                     = [exists |-> TRUE, text |-> Render(crawl_results.pages[i].html)]

\* The loop has moved on from a page that failed to parse and whose markup
\* was written.
C15_Witness ==
    \E i \in DOMAIN page_log :
        /\ page_log[i].step = "parse_failed"
        /\ page_log[i].write = "ok"
        /\ txt_files[TxtName(page_log[i].url)].text # << >>
        /\ total_errors >= 1
        /\ page_idx > i

StepFailed(rec) ==
    \/ rec.step = "parse_failed"
    \/ rec.write \in {"open_fails", "write_fails"}
    \/ rec.export_attempted /\ rec.errors > 0

\* C22: total_errors is incremented only for a page on which a parse or
\* export step failed, so a run in which every page parsed and every write
\* succeeded ends with total_errors = 0.
C22_ErrorsOnlyForFailures ==
    /\ \A i \in DOMAIN page_log : page_log[i].errors > 0 => StepFailed(page_log[i])
    /\ (scrape_pc = "returned" /\ \A i \in DOMAIN page_log : ~ StepFailed(page_log[i]))
       => total_errors = 0

\* The exporter attempted a format for the page of a log record: the text
\* file by save_txt; the JSON file by export_page; the PDF by export_page
\* when the exporter's PDF_ENABLED is set (exporter.py:114, 77).
Attempted(rec, format) ==
    CASE format = "txt" -> rec.write \in WriteOutcomes
      [] format = "json" -> rec.export_attempted
      [] format = "pdf" -> rec.export_attempted /\ PDF_ENABLED

\* C23: a format is in the exported list of the run metadata only if the
\* exporter attempted it for the pages of the run that parsed, and "pdf" is
\* in the list exactly when the exporter's PDF export is enabled.
C23_ExportedFormatsAttempted ==
    scrape_pc = "returned"
    => /\ \A format \in Range(metadata.exported) :
             \A i \in DOMAIN page_log :
                 page_log[i].step = "parsed" => Attempted(page_log[i], format)
       /\ "pdf" \in Range(metadata.exported) <=> PDF_ENABLED

\* C24: before a writer of export_page writes its file the subdirectory it
\* writes into exists, and no open of a writer fails because that
\* subdirectory is missing.
C24_DirectoriesCreated ==
    \A w \in Writers :
        /\ (\E i \in 1..MaxChunks : files[<<w, i>>] # "absent") => Dir(w) \in dirs
        /\ open_errors[w] # "missing_dir"

(***************************************************************************)
(* Termination of the crawl, checked under FairSpec.                       *)
(***************************************************************************)
AllTasksDone == \A t \in DOMAIN tasks : tasks[t].pc = "done"

AttemptsBounded == \A u \in Urls : attempts[u] <= MAX_RETRIES + 1

\* C21: under a fair event loop and gate crawl returns: every task ends, no
\* task stays suspended at the gate, and no URL is attempted more than
\* MAX_RETRIES + 1 times.
C21_CrawlReturns ==
    /\ []AttemptsBounded
    /\ <>[](crawl_pc = "returned" /\ AllTasksDone)

\* A crawl has returned after a task was suspended at the gate and got its
\* slot, and after a retrieval failed.
C21_Witness ==
    /\ crawl_pc = "returned"
    /\ AllTasksDone
    /\ \E u \in waited : attempts[u] > 0
    /\ \E u \in Urls : sleeps[u] # << >>

====
